---- MODULE Spec2Model ----
(***************************************************************************)
(* The SSE relay of the MCP server (GET /mcp/stream): one chat request     *)
(* creates a conversation upstream, posts the messages, creates a run,     *)
(* emits 'start', polls the run and maps the outcome to SSE events.        *)
(* Every connection has its own handler closure; the upstream service is   *)
(* the environment and answers every awaited call nondeterministically.    *)
(***************************************************************************)
EXTENDS Integers, Sequences, FiniteSets, TLC

\* ------------------------------------------------------------------ bounds
MaxMsgs == 3
MaxList == 2
\* JSON-RPC POSTs answered in one behaviour
MaxRpc == 2
\* length of the texts carried by content events on the wire
MaxStr == 2
\* size of the chunks in which the socket hands the stream to the client,
\* besides handing over all that is pending
MaxChunk == 2

\* --------------------------------------------------------- program constants
maxRetries == 60

None == "none"
NoSid == 0
Conns == {1, 2}

SeqsUpTo(S, n) == UNION {[1..k -> S] : k \in 0..n}

\* ------------------------------------------------------------ request inputs
UserHi == [role |-> "user", content |-> "Hi"]
AsstHello == [role |-> "assistant", content |-> "Hello!"]
AsstOld == [role |-> "assistant", content |-> "Older"]
AsstNoText == [role |-> "assistant", content |-> None]
\* null or undefined where a message object is expected
NullMsg == [role |-> None, content |-> None]

\* elements a client may put in the messages array (null is valid JSON)
MsgValues == {UserHi, AsstHello, NullMsg}

\* req.query.params: JSON.parse throws, or params.messages is absent, a
\* non-array value, or an array
ParamsValues ==
    {[kind |-> k, items |-> <<>>] : k \in {"badJson", "absent", "notArray"}}
    \cup {[kind |-> "array", items |-> m] : m \in SeqsUpTo(MsgValues, MaxMsgs)}

Methods == {"chat", "getModels"}
Requests == [method : Methods, params : ParamsValues]
NoRequest == [method |-> None, params |-> [kind |-> "absent", items |-> <<>>]]

\* ------------------------------------------------------------ upstream answers
ContractStatuses == {"pending", "in_progress", "completed", "failed"}
OtherStatus == "cancelled"
NetErr == "neterr"
PollOutcomes == ContractStatuses \cup {OtherStatus, NetErr}

\* the message-list fetch: transport error, or a body whose messages field is
\* absent or a list of messages
ListValues == {UserHi, AsstHello, AsstOld, AsstNoText}
FetchOutcomes ==
    {[kind |-> k, items |-> <<>>] : k \in {NetErr, "absent"}}
    \cup {[kind |-> "array", items |-> m] : m \in SeqsUpTo(ListValues, MaxList)}

VARIABLES
    accepting,      \* connections on which a request may still arrive
    pc,             \* position of each connection's handler
    req,            \* the request received on the connection
    response,       \* JSON response written with res.status().json()
    events,         \* SSE events written with sendEvent, in order
    closed,         \* res.end() has been called
    conversationId, \* conversationId of createDustRun
    runId,          \* runId of createDustRun
    idx,            \* number of addDustMessage calls made by createDustRun
    retries,        \* let retries of the handler closure
    contentSent,    \* let contentSent of the handler closure
    status,         \* status read by the last poll tick
    seen,           \* outcomes of all polls answered so far
    log,            \* upstream creation calls and their returns, in order
    polls,          \* number of run-status GETs issued
    fetches,        \* number of message-list GETs issued
    fetched,        \* body of the answered message-list GET
    nextSid,        \* upstream allocator of sId values
    clientGone,     \* the client has dropped the connection
    rpcLog,         \* responses of POST /mcp, in order
    wire,           \* characters written with res.write, not yet delivered
    written,        \* number of events already written as frames
    client,         \* state of the SSE client of the connection
    target,         \* conversation and run ids of the status GETs issued
    answered,       \* number of status GETs whose answer has been handled
    scheduled       \* number of setTimeout(checkRun) calls made

vars == <<accepting, pc, req, response, events, closed, conversationId, runId,
          idx, retries, contentSent, status, seen, log, polls, fetches, fetched,
          nextSid, clientGone, rpcLog, wire, written, client, target,
          answered, scheduled>>

\* what the handler of the streaming endpoint never touches
ext == <<clientGone, rpcLog, wire, written, client>>

\* ------------------------------------------------------------------ helpers
\* messages[i] of a JavaScript array (0-based i); out of range is undefined
At(m, i) == IF i >= 0 /\ i < Len(m) THEN m[i + 1] ELSE NullMsg

Ev(type, id, cid, content, error) ==
    [type |-> type, id |-> id, conversationId |-> cid,
     content |-> content, error |-> error]

StartEvent(rid, cid) == Ev("start", rid, cid, None, None)
\* variant: the content event is built without conversationId
ContentEventNoConversation(rid, cid, text) ==
    Ev("content", rid, NoSid, text, None)

ContentEvent(rid, cid, text) == Ev("content", rid, cid, text, None)
EndEvent(rid, cid) == Ev("end", rid, cid, None, None)
ErrorEvent(rid, cid, text) == Ev("error", rid, cid, None, text)

\* variant: the frame is written twice
sendEventTwice(evs, data) == Append(Append(evs, data), data)

\* res.write of one frame
sendEvent(evs, data) == Append(evs, data)

Call(op, arg) == [ev |-> "call", op |-> op, arg |-> arg, ok |-> TRUE]
Ret(op, ok) == [ev |-> "ret", op |-> op, arg |-> NullMsg, ok |-> ok]

NoResponse == [status |-> 0, code |-> 0]
NoFetch == [kind |-> "none", items |-> <<>>]

\* the test client before its first chunk: let buffer = '', fullResponse = ''
NewClient == [buffer |-> <<>>, received |-> <<>>, fullResponse |-> <<>>,
              completed |-> FALSE, failed |-> FALSE]

\* no POST /mcp answered, nothing written on a socket, clients connected
InitExt ==
    /\ clientGone = [c \in Conns |-> FALSE]
    /\ rpcLog = <<>>
    /\ wire = [c \in Conns |-> <<>>]
    /\ written = [c \in Conns |-> 0]
    /\ client = [c \in Conns |-> NewClient]

Init ==
    /\ accepting = {1}
    /\ pc = [c \in Conns |-> "idle"]
    /\ req = [c \in Conns |-> NoRequest]
    /\ response = [c \in Conns |-> NoResponse]
    /\ events = [c \in Conns |-> <<>>]
    /\ closed = [c \in Conns |-> FALSE]
    /\ conversationId = [c \in Conns |-> NoSid]
    /\ runId = [c \in Conns |-> NoSid]
    /\ idx = [c \in Conns |-> 0]
    /\ retries = [c \in Conns |-> 0]
    /\ contentSent = [c \in Conns |-> FALSE]
    /\ status = [c \in Conns |-> None]
    /\ seen = [c \in Conns |-> {}]
    /\ log = [c \in Conns |-> <<>>]
    /\ polls = [c \in Conns |-> 0]
    /\ fetches = [c \in Conns |-> 0]
    /\ fetched = [c \in Conns |-> NoFetch]
    /\ nextSid = 1
    /\ target = [c \in Conns |-> {}]
    /\ answered = [c \in Conns |-> 0]
    /\ scheduled = [c \in Conns |-> 0]
    /\ InitExt

\* ------------------------------------------------ GET /mcp/stream, validation
\* variant: the method is not looked at
MethodSupportedAny(method) == method \in Methods

\* if (method !== 'chat')
MethodSupported(method) == method = "chat"

\* variant: only the !messages half of the test
MessagesAcceptedIfPresent(params) == params.kind # "absent"

\* if (!messages || !Array.isArray(messages)) is the rejection
MessagesAccepted(params) == params.kind = "array"

\* res.status(http).json({error: {code: rpc}})
JsonError(c, http, rpc) ==
    /\ response' = [response EXCEPT ![c] = [status |-> http, code |-> rpc]]
    /\ pc' = [pc EXCEPT ![c] = "done"]

\* the catch around createDustRun and the poll set-up: an error event without
\* id and conversationId, then res.end()
ChatCatch(c, text) ==
    /\ events' = [events EXCEPT ![c] = sendEvent(@, ErrorEvent(NoSid, NoSid, text))]
    /\ closed' = [closed EXCEPT ![c] = TRUE]
    /\ pc' = [pc EXCEPT ![c] = "done"]

\* ------------------------------------------------------------ createDustRun
\* variant: the context loop runs to i < messages.length
PostPlanWholeLoop(m) == m \o <<At(m, Len(m) - 1)>>

\* the arguments of the addDustMessage calls, in the order createDustRun
\* makes them: the context messages, then userMessage
PostPlan(m) ==
    (IF Len(m) > 1 THEN SubSeq(m, 1, Len(m) - 1) ELSE <<>>)
        \o <<At(m, Len(m) - 1)>>

\* message.role throws a TypeError for null and undefined, before the POST
Dereferencable(msg) == msg # NullMsg

\* addDustMessage(conversationId, message) up to its await
addDustMessage(c, msg, lg) ==
    IF Dereferencable(msg)
      THEN /\ log' = [log EXCEPT ![c] = Append(lg, Call("message", msg))]
           /\ pc' = [pc EXCEPT ![c] = "awaitPost"]
           /\ UNCHANGED <<events, closed>>
      ELSE /\ log' = [log EXCEPT ![c] = lg]
           /\ ChatCatch(c, "Error: Failed to post message")

\* the run creation POST, up to its await
CreateRun(c, lg) ==
    /\ log' = [log EXCEPT ![c] = Append(lg, Call("run", NullMsg))]
    /\ pc' = [pc EXCEPT ![c] = "awaitRun"]
    /\ UNCHANGED <<events, closed>>

\* createDustRun after k addDustMessage calls have returned
ContinueRun(c, k, lg) ==
    LET plan == PostPlan(req[c].params.items) IN
    IF k < Len(plan)
      THEN /\ idx' = [idx EXCEPT ![c] = k + 1]
           /\ addDustMessage(c, plan[k + 1], lg)
      ELSE /\ UNCHANGED idx
           /\ CreateRun(c, lg)

\* app.get('/mcp/stream') up to its first await
Handle(c, r) ==
    /\ c \in accepting
    /\ pc[c] = "idle"
    /\ req' = [req EXCEPT ![c] = r]
    /\ IF r.params.kind = "badJson"
         THEN JsonError(c, 500, -32000) /\ UNCHANGED log
       ELSE IF ~MethodSupported(r.method)
         THEN JsonError(c, 400, -32601) /\ UNCHANGED log
       ELSE IF ~MessagesAccepted(r.params)
         THEN JsonError(c, 400, -32602) /\ UNCHANGED log
       ELSE /\ log' = [log EXCEPT ![c] = Append(@, Call("conversation", NullMsg))]
            /\ pc' = [pc EXCEPT ![c] = "awaitConversation"]
            /\ UNCHANGED response
    /\ accepting' = accepting \ {c}
    /\ UNCHANGED <<events, closed, conversationId, runId, idx, retries,
                   contentSent, status, seen, polls, fetches, nextSid,
                   fetched>>
    /\ UNCHANGED <<ext, target, answered, scheduled>>

\* a request arrives on the streaming endpoint
Receive(c) == \E r \in Requests : Handle(c, r)

\* createDustConversation returns or throws
ConversationReturn(c) ==
    /\ pc[c] = "awaitConversation"
    /\ \E ok \in BOOLEAN :
        LET lg == Append(log[c], Ret("conversation", ok)) IN
        IF ok
          THEN /\ conversationId' = [conversationId EXCEPT ![c] = nextSid]
               /\ nextSid' = nextSid + 1
               /\ ContinueRun(c, 0, lg)
          ELSE /\ log' = [log EXCEPT ![c] = lg]
               /\ ChatCatch(c, "Error: Failed to create conversation")
               /\ UNCHANGED <<conversationId, nextSid, idx>>
    /\ UNCHANGED <<accepting, req, response, runId, retries, contentSent,
                   status, seen, polls, fetches,
                   fetched>>
    /\ UNCHANGED <<ext, target, answered, scheduled>>

\* variant: a failed POST is logged and the loop goes on
PostReturnSkipsFailed(c) ==
    /\ pc[c] = "awaitPost"
    /\ \E ok \in BOOLEAN :
        LET lg == Append(log[c], Ret("message", ok)) IN
        ContinueRun(c, idx[c], lg)
    /\ UNCHANGED <<accepting, req, response, conversationId, runId, retries,
                   contentSent, status, seen, polls, fetches, nextSid,
                   fetched>>
    /\ UNCHANGED <<ext, target, answered, scheduled>>

\* variant: a failed POST is issued once more before giving up
PostReturnRetries(c) ==
    /\ pc[c] = "awaitPost"
    /\ \E ok \in BOOLEAN :
        LET lg == Append(log[c], Ret("message", ok)) IN
        IF ok
          THEN ContinueRun(c, idx[c], lg)
          ELSE /\ UNCHANGED idx
               /\ IF \A i \in DOMAIN log[c] : log[c][i].ok
                    THEN addDustMessage(c,
                             PostPlan(req[c].params.items)[idx[c]], lg)
                    ELSE /\ log' = [log EXCEPT ![c] = lg]
                         /\ ChatCatch(c, "Error: Failed to post message")
    /\ UNCHANGED <<accepting, req, response, conversationId, runId, retries,
                   contentSent, status, seen, polls, fetches, nextSid,
                   fetched>>
    /\ UNCHANGED <<ext, target, answered, scheduled>>

\* the POST of addDustMessage returns or throws
PostReturn(c) ==
    /\ pc[c] = "awaitPost"
    /\ \E ok \in BOOLEAN :
        LET lg == Append(log[c], Ret("message", ok)) IN
        IF ok
          THEN ContinueRun(c, idx[c], lg)
          ELSE /\ log' = [log EXCEPT ![c] = lg]
               /\ ChatCatch(c, "Error: Failed to post message")
               /\ UNCHANGED idx
    /\ UNCHANGED <<accepting, req, response, conversationId, runId, retries,
                   contentSent, status, seen, polls, fetches, nextSid,
                   fetched>>
    /\ UNCHANGED <<ext, target, answered, scheduled>>

\* the run creation POST returns or throws; on success the handler sends
\* 'start' and schedules the first checkRun
RunReturn(c) ==
    /\ pc[c] = "awaitRun"
    /\ \E ok \in BOOLEAN :
        /\ log' = [log EXCEPT ![c] = Append(@, Ret("run", ok))]
        /\ IF ok
             THEN /\ runId' = [runId EXCEPT ![c] = nextSid]
                  /\ nextSid' = nextSid + 1
                  /\ events' = [events EXCEPT ![c] =
                         sendEvent(@, StartEvent(nextSid, conversationId[c]))]
                  /\ pc' = [pc EXCEPT ![c] = "timer"]
                  /\ scheduled' = [scheduled EXCEPT ![c] = @ + 1]
                  /\ UNCHANGED closed
             ELSE /\ ChatCatch(c, "Error: Failed to create run")
                  /\ UNCHANGED <<runId, nextSid, scheduled>>
    /\ UNCHANGED <<accepting, req, response, conversationId, idx, retries,
                   contentSent, status, seen, polls, fetches,
                   fetched>>
    /\ UNCHANGED <<ext, target, answered>>

\* ------------------------------------------------------------------ checkRun
\* variant: the catch schedules another tick while attempts remain
PollCatchRetries(c, text) ==
    IF retries[c] < maxRetries
      THEN /\ pc' = [pc EXCEPT ![c] = "timer"]
           /\ UNCHANGED <<events, closed>>
      ELSE /\ events' = [events EXCEPT ![c] =
                  sendEvent(@, ErrorEvent(runId[c], conversationId[c], text))]
           /\ closed' = [closed EXCEPT ![c] = TRUE]
           /\ pc' = [pc EXCEPT ![c] = "done"]

\* the catch of checkRun: an error event with the ids, then res.end()
PollCatch(c, text) ==
    /\ events' = [events EXCEPT ![c] =
           sendEvent(@, ErrorEvent(runId[c], conversationId[c], text))]
    /\ closed' = [closed EXCEPT ![c] = TRUE]
    /\ pc' = [pc EXCEPT ![c] = "done"]

\* variant: the branch ends the response but schedules the next tick as well
FailWithKeepsTimer(c, text) ==
    /\ events' = [events EXCEPT ![c] =
           sendEvent(@, ErrorEvent(runId[c], conversationId[c], text))]
    /\ closed' = [closed EXCEPT ![c] = TRUE]
    /\ pc' = [pc EXCEPT ![c] = "timer"]

\* the error event of a status branch, then res.end()
FailWith(c, text) ==
    /\ events' = [events EXCEPT ![c] =
           sendEvent(@, ErrorEvent(runId[c], conversationId[c], text))]
    /\ closed' = [closed EXCEPT ![c] = TRUE]
    /\ pc' = [pc EXCEPT ![c] = "done"]

\* variant: the failed branch carries the text of the timeout branch
RunFailedWrongText(c) == FailWith(c, "Request timed out")

\* } else if (status === 'failed') {
RunFailed(c) == FailWith(c, "Run failed")

\* variant: the error event is written but the next tick is scheduled too
TimedOutKeepsPolling(c) ==
    /\ events' = [events EXCEPT ![c] =
           sendEvent(@, ErrorEvent(runId[c], conversationId[c],
                                   "Request timed out"))]
    /\ pc' = [pc EXCEPT ![c] = "timer"]
    /\ UNCHANGED closed

\* variant: at the cap nothing is scheduled and nothing is written
TimedOutSilently(c) ==
    /\ pc' = [pc EXCEPT ![c] = "stalled"]
    /\ UNCHANGED <<events, closed>>

\* the else of if (retries < maxRetries): max retries reached
TimedOut(c) == FailWith(c, "Request timed out")

\* variant: the 'end' event is written without res.end()
CompleteLeavesOpen(c, evs) ==
    /\ events' = [events EXCEPT ![c] =
           sendEvent(evs, EndEvent(runId[c], conversationId[c]))]
    /\ pc' = [pc EXCEPT ![c] = "done"]
    /\ UNCHANGED closed

\* the 'end' event written after evs, then res.end()
Complete(c, evs) ==
    /\ events' = [events EXCEPT ![c] =
           sendEvent(evs, EndEvent(runId[c], conversationId[c]))]
    /\ closed' = [closed EXCEPT ![c] = TRUE]
    /\ pc' = [pc EXCEPT ![c] = "done"]

\* variant: retries <= maxRetries
KeepPollingInclusive(r) == r <= maxRetries

\* if (retries < maxRetries) setTimeout(checkRun, pollInterval)
KeepPolling(r) == r < maxRetries

\* messagesResponse.data.messages || []
FetchedMessages(body) == IF body.kind = "array" THEN body.items ELSE <<>>

IsAssistant(m) == m.role = "assistant"

\* variant: the role filter is missing
assistantMessagesUnfiltered(list) == list

\* messages.filter(m => m.role === 'assistant')
assistantMessages(list) == SelectSeq(list, IsAssistant)

\* variant: assistantMessages[0]
lastMessageFirst(list) == assistantMessages(list)[1]

\* assistantMessages[assistantMessages.length - 1]
lastMessage(list) == assistantMessages(list)[Len(assistantMessages(list))]

\* lastMessage.content.substring throws a TypeError unless content is a string
HasText(m) == m.content # None

\* the ids in the URL of the status GET:
\* .../conversations/${conversationId}/runs/${runId}
StatusUrl(c) == <<conversationId[c], runId[c]>>

\* variant: the 'start' event is sent from inside checkRun
checkRunResendsStart(c) ==
    /\ pc[c] = "timer"
    /\ retries' = [retries EXCEPT ![c] = @ + 1]
    /\ polls' = [polls EXCEPT ![c] = @ + 1]
    /\ events' = [events EXCEPT ![c] =
           sendEvent(@, StartEvent(runId[c], conversationId[c]))]
    /\ pc' = [pc EXCEPT ![c] = "awaitPoll"]
    /\ UNCHANGED <<accepting, req, response, closed, conversationId,
                   runId, idx, contentSent, status, seen, log, fetches,
                   fetched, nextSid>>
    /\ target' = [target EXCEPT ![c] = @ \cup {StatusUrl(c)}]
    /\ UNCHANGED <<ext, answered, scheduled>>

\* variant: the run id of the URL is the sId the upstream handed out last
checkRunLatestSid(c) ==
    /\ pc[c] = "timer"
    /\ retries' = [retries EXCEPT ![c] = @ + 1]
    /\ polls' = [polls EXCEPT ![c] = @ + 1]
    /\ pc' = [pc EXCEPT ![c] = "awaitPoll"]
    /\ UNCHANGED <<accepting, req, response, events, closed, conversationId,
                   runId, idx, contentSent, status, seen, log, fetches, nextSid,
                   fetched>>
    /\ target' = [target EXCEPT ![c] = @ \cup {<<conversationId[c], nextSid - 1>>}]
    /\ UNCHANGED <<ext, answered, scheduled>>

\* variant: the next tick is scheduled when the tick starts, before the
\* status GET is awaited
checkRunSchedulesAhead(c) ==
    /\ pc[c] = "timer"
    /\ retries' = [retries EXCEPT ![c] = @ + 1]
    /\ polls' = [polls EXCEPT ![c] = @ + 1]
    /\ pc' = [pc EXCEPT ![c] = "awaitPoll"]
    /\ UNCHANGED <<accepting, req, response, events, closed, conversationId,
                   runId, idx, contentSent, status, seen, log, fetches, nextSid,
                   fetched>>
    /\ target' = [target EXCEPT ![c] = @ \cup {StatusUrl(c)}]
    /\ scheduled' = [scheduled EXCEPT ![c] = @ + 1]
    /\ UNCHANGED <<ext, answered>>

\* variant: the tick does not count itself
checkRunUncounted(c) ==
    /\ pc[c] = "timer"
    /\ polls' = [polls EXCEPT ![c] = @ + 1]
    /\ pc' = [pc EXCEPT ![c] = "awaitPoll"]
    /\ UNCHANGED <<accepting, req, response, events, closed, conversationId,
                   runId, idx, contentSent, status, seen, log, fetches, nextSid,
                   fetched, retries>>
    /\ target' = [target EXCEPT ![c] = @ \cup {StatusUrl(c)}]
    /\ UNCHANGED <<ext, answered, scheduled>>

\* variant: let retries is declared outside the handler, one for all requests
checkRunSharedCounter(c) ==
    /\ pc[c] = "timer"
    /\ retries' = [d \in Conns |-> retries[d] + 1]
    /\ polls' = [polls EXCEPT ![c] = @ + 1]
    /\ pc' = [pc EXCEPT ![c] = "awaitPoll"]
    /\ UNCHANGED <<accepting, req, response, events, closed, conversationId,
                   runId, idx, contentSent, status, seen, log, fetches, nextSid,
                   fetched>>
    /\ target' = [target EXCEPT ![c] = @ \cup {StatusUrl(c)}]
    /\ UNCHANGED <<ext, answered, scheduled>>

\* a scheduled timer fires: checkRun runs up to the await of the status GET
checkRun(c) ==
    /\ pc[c] = "timer"
    /\ retries' = [retries EXCEPT ![c] = @ + 1]
    /\ polls' = [polls EXCEPT ![c] = @ + 1]
    /\ pc' = [pc EXCEPT ![c] = "awaitPoll"]
    /\ UNCHANGED <<accepting, req, response, events, closed, conversationId,
                   runId, idx, contentSent, status, seen, log, fetches, nextSid,
                   fetched>>
    /\ target' = [target EXCEPT ![c] = @ \cup {StatusUrl(c)}]
    /\ UNCHANGED <<ext, answered, scheduled>>

\* variant: the attempt cap is tested before the status
PollAnswerCapFirst(c, out) ==
    /\ pc[c] = "awaitPoll"
    /\ seen' = [seen EXCEPT ![c] = @ \cup {out}]
    /\ status' = [status EXCEPT ![c] = out]
    /\ IF out # NetErr /\ ~KeepPolling(retries[c])
         THEN TimedOut(c) /\ UNCHANGED <<fetches, scheduled>>
       ELSE IF out = NetErr
         THEN PollCatch(c, "Error: poll") /\ UNCHANGED <<fetches, scheduled>>
       ELSE IF out = "completed"
         THEN IF ~contentSent[c]
                THEN /\ fetches' = [fetches EXCEPT ![c] = @ + 1]
                     /\ pc' = [pc EXCEPT ![c] = "awaitFetch"]
                     /\ UNCHANGED <<events, closed, scheduled>>
                ELSE Complete(c, events[c]) /\ UNCHANGED <<fetches, scheduled>>
       ELSE IF out \in {"in_progress", "pending"}
         THEN /\ IF KeepPolling(retries[c])
                   THEN /\ pc' = [pc EXCEPT ![c] = "timer"]
                        /\ scheduled' = [scheduled EXCEPT ![c] = @ + 1]
                        /\ UNCHANGED <<events, closed>>
                   ELSE TimedOut(c) /\ UNCHANGED scheduled
              /\ UNCHANGED fetches
       ELSE IF out = "failed"
         THEN RunFailed(c) /\ UNCHANGED <<fetches, scheduled>>
       ELSE /\ pc' = [pc EXCEPT ![c] = "stalled"]
            /\ UNCHANGED <<events, closed, fetches, scheduled>>
    /\ UNCHANGED <<accepting, req, response, conversationId, runId, idx,
                   retries, contentSent, log, polls, nextSid,
                   fetched>>
    /\ answered' = [answered EXCEPT ![c] = @ + 1]
    /\ UNCHANGED <<ext, target>>

\* the status GET returns out or throws; checkRun dispatches on run.status
PollAnswer(c, out) ==
    /\ pc[c] = "awaitPoll"
    /\ seen' = [seen EXCEPT ![c] = @ \cup {out}]
    /\ status' = [status EXCEPT ![c] = out]
    /\ IF out = NetErr
         THEN PollCatch(c, "Error: poll") /\ UNCHANGED <<fetches, scheduled>>
       ELSE IF out = "completed"
         THEN IF ~contentSent[c]
                THEN /\ fetches' = [fetches EXCEPT ![c] = @ + 1]
                     /\ pc' = [pc EXCEPT ![c] = "awaitFetch"]
                     /\ UNCHANGED <<events, closed, scheduled>>
                ELSE Complete(c, events[c]) /\ UNCHANGED <<fetches, scheduled>>
       ELSE IF out \in {"in_progress", "pending"}
         THEN /\ IF KeepPolling(retries[c])
                   THEN /\ pc' = [pc EXCEPT ![c] = "timer"]
                        /\ scheduled' = [scheduled EXCEPT ![c] = @ + 1]
                        /\ UNCHANGED <<events, closed>>
                   ELSE TimedOut(c) /\ UNCHANGED scheduled
              /\ UNCHANGED fetches
       ELSE IF out = "failed"
         THEN RunFailed(c) /\ UNCHANGED <<fetches, scheduled>>
       ELSE /\ pc' = [pc EXCEPT ![c] = "stalled"]
            /\ UNCHANGED <<events, closed, fetches, scheduled>>
    /\ UNCHANGED <<accepting, req, response, conversationId, runId, idx,
                   retries, contentSent, log, polls, nextSid,
                   fetched>>
    /\ answered' = [answered EXCEPT ![c] = @ + 1]
    /\ UNCHANGED <<ext, target>>

\* the status GET of a poll tick is answered
PollReturn(c) == \E out \in PollOutcomes : PollAnswer(c, out)

\* the message-list GET of the completed branch returns body or throws
FetchAnswer(c, body) ==
    /\ pc[c] = "awaitFetch"
    /\ LET list == FetchedMessages(body) IN
       /\ fetched' = [fetched EXCEPT ![c] = body]
       /\ IF body.kind = NetErr
            THEN PollCatch(c, "Error: fetch") /\ UNCHANGED contentSent
          ELSE IF Len(assistantMessages(list)) > 0
            THEN IF HasText(lastMessage(list))
                   THEN /\ contentSent' = [contentSent EXCEPT ![c] = TRUE]
                        /\ Complete(c, sendEvent(events[c],
                               ContentEvent(runId[c], conversationId[c],
                                            lastMessage(list).content)))
                   ELSE /\ PollCatch(c, "Error: substring")
                        /\ UNCHANGED contentSent
          ELSE Complete(c, events[c]) /\ UNCHANGED contentSent
    /\ UNCHANGED <<accepting, req, response, conversationId, runId, idx,
                   retries, status, seen, log, polls, fetches, nextSid>>
    /\ UNCHANGED <<ext, target, answered, scheduled>>

\* the message-list GET is answered
FetchReturn(c) == \E body \in FetchOutcomes : FetchAnswer(c, body)

Next == \E c \in Conns :
    \/ Receive(c)
    \/ ConversationReturn(c)
    \/ PostReturn(c)
    \/ RunReturn(c)
    \/ checkRun(c)
    \/ PollReturn(c)
    \/ FetchReturn(c)

Spec == Init /\ [][Next]_vars

\* ------------------------------------------- the upstream keeps to its contract
\* the status GET answers one of the four documented statuses, or fails
PollContract(c) ==
    \E out \in ContractStatuses \cup {NetErr} : PollAnswer(c, out)

\* what runs on behalf of an accepted request: the continuation of an awaited
\* upstream call, or a scheduled timer
HandlerStep(c) ==
    \/ ConversationReturn(c)
    \/ PostReturn(c)
    \/ RunReturn(c)
    \/ checkRun(c)
    \/ PollContract(c)
    \/ FetchReturn(c)

NextFair == \E c \in Conns : Receive(c) \/ HandlerStep(c)

\* every awaited call eventually returns or throws, every timer fires
SpecFair ==
    Init /\ [][NextFair]_vars /\ \A c \in Conns : WF_vars(HandlerStep(c))

\* ------------------------------------------------------ a send that throws
\* sendEvent throws where the terminal event is written (JSON.stringify or
\* res.write raises): in a status branch the exception goes to the catch of
\* checkRun, whose own sendEvent throws as well; in the catch it leaves
\* checkRun at once. Either way res.end() is not reached and nothing is
\* scheduled.
SendThrows(c) ==
    /\ pc' = [pc EXCEPT ![c] = "stalled"]
    /\ UNCHANGED <<events, closed>>

\* the status GET is answered and the send of the terminal event throws
PollAnswerSendThrows(c, out) ==
    /\ pc[c] = "awaitPoll"
    /\ \/ out \in {"failed", NetErr}
       \/ out \in {"pending", "in_progress"} /\ ~KeepPolling(retries[c])
    /\ seen' = [seen EXCEPT ![c] = @ \cup {out}]
    /\ status' = [status EXCEPT ![c] = out]
    /\ SendThrows(c)
    /\ UNCHANGED <<accepting, req, response, conversationId, runId, idx,
                   retries, contentSent, log, polls, nextSid, fetches,
                   fetched>>
    /\ answered' = [answered EXCEPT ![c] = @ + 1]
    /\ UNCHANGED <<ext, target, scheduled>>

\* the message list is answered or the GET throws, and the first send that
\* follows throws
FetchAnswerSendThrows(c, body) ==
    /\ pc[c] = "awaitFetch"
    /\ fetched' = [fetched EXCEPT ![c] = body]
    /\ SendThrows(c)
    /\ UNCHANGED <<accepting, req, response, conversationId, runId, idx,
                   retries, status, seen, log, polls, fetches, nextSid,
                   contentSent>>
    /\ UNCHANGED <<ext, target, answered, scheduled>>

PollSendThrows(c) ==
    \E out \in ContractStatuses \cup {NetErr} : PollAnswerSendThrows(c, out)
FetchSendThrows(c) == \E body \in FetchOutcomes : FetchAnswerSendThrows(c, body)

NextThrows == \E c \in Conns :
    \/ Receive(c)
    \/ ConversationReturn(c)
    \/ PostReturn(c)
    \/ RunReturn(c)
    \/ checkRun(c)
    \/ PollContract(c)
    \/ FetchReturn(c)
    \/ PollSendThrows(c)
    \/ FetchSendThrows(c)

SpecThrows == Init /\ [][NextThrows]_vars

\* ------------------------------------------------------------- POST /mcp
\* the id of the request body; 0 stands for an absent id
RpcIds == {0, 1, 2}

\* the method of the request body; None stands for an absent method
RpcMethods ==
    {"getModels", "chat", "getAgentConfigurations", "createAgentConfiguration",
     "runAgent", "getRunById", None}

RpcAnswer(http, id, kind, code, body) ==
    [status |-> http, id |-> id, kind |-> kind, code |-> code, body |-> body]

\* variant: the switch has no default, other methods share the chat case
RpcResponseNoDefault(id, method) ==
    IF method = "getModels"
      THEN RpcAnswer(200, id, "result", 0, "agents")
      ELSE RpcAnswer(200, id, "result", 0,
               "Chat requests should use the streaming endpoint /mcp/stream")

\* switch (method) of app.post('/mcp')
RpcResponse(id, method) ==
    IF method = "getModels"
      THEN RpcAnswer(200, id, "result", 0, "agents")
    ELSE IF method = "chat"
      THEN RpcAnswer(200, id, "result", 0,
               "Chat requests should use the streaming endpoint /mcp/stream")
    ELSE RpcAnswer(400, id, "error", -32601, "Method not supported")

\* app.post('/mcp'): the response is written, nothing else is touched
RpcPost(id, method) ==
    /\ Len(rpcLog) < MaxRpc
    /\ rpcLog' = Append(rpcLog, [id |-> id, method |-> method,
                                 response |-> RpcResponse(id, method)])
    /\ UNCHANGED <<accepting, pc, req, response, events, closed,
                   conversationId, runId, idx, retries, contentSent, status,
                   seen, log, polls, fetches, fetched, nextSid, clientGone,
                   wire, written, client, target, answered,
                   scheduled>>

NextRpc == \E id \in RpcIds, method \in RpcMethods : RpcPost(id, method)

SpecRpc == Init /\ [][NextRpc]_vars

\* ------------------------------------------------- JSON text, character by character
\* the characters \n, " and \ ; every other character stands for itself
LF == "LF"
DQ == "DQ"
BS == "BS"

\* characters of the texts that go through the relay: a plain letter (which
\* is also the letter of the escape \n) and the three that JSON must escape
Alphabet == {"n", LF, DQ, BS}
Texts == SeqsUpTo(Alphabet, MaxStr)

\* JSON values: strings and objects (members in textual order)
JStr(s) == [t |-> "str", s |-> s, f |-> <<>>]
JObj(f) == [t |-> "obj", s |-> <<>>, f |-> f]
\* undefined, and the outcome of a JSON.parse that threw
JNone == [t |-> "none", s |-> <<>>, f |-> <<>>]
Member(k, v) == [k |-> k, v |-> v]

RECURSIVE Flat(_)
Flat(ss) == IF ss = <<>> THEN <<>> ELSE Head(ss) \o Flat(Tail(ss))

\* variant: the line feed is copied into the JSON text as it is
EscapeCharKeepsLF(ch) ==
    IF ch = DQ THEN <<BS, DQ>>
    ELSE IF ch = BS THEN <<BS, BS>>
    ELSE <<ch>>

\* JSON.stringify of one character of a string
EscapeChar(ch) ==
    IF ch = DQ THEN <<BS, DQ>>
    ELSE IF ch = BS THEN <<BS, BS>>
    ELSE IF ch = LF THEN <<BS, "n">>
    ELSE <<ch>>

\* JSON.stringify of a string
Quote(s) == <<DQ>> \o Flat([i \in 1..Len(s) |-> EscapeChar(s[i])]) \o <<DQ>>

RECURSIVE Stringify(_), StringifyMembers(_)
\* JSON.stringify
Stringify(v) ==
    IF v.t = "str" THEN Quote(v.s)
    ELSE <<"{">> \o StringifyMembers(v.f) \o <<"}">>
StringifyMembers(f) ==
    IF f = <<>> THEN <<>>
    ELSE Quote(f[1].k) \o <<":">> \o Stringify(f[1].v)
         \o (IF Len(f) > 1 THEN <<",">> \o StringifyMembers(Tail(f)) ELSE <<>>)

Parsed(ok, v, next) == [ok |-> ok, v |-> v, next |-> next]
ParseError == Parsed(FALSE, JNone, 0)

\* the character an escape sequence \x stands for
Unescape(ch) == IF ch = "n" THEN LF ELSE ch

RECURSIVE ScanString(_, _, _)
\* JSON.parse inside a string, after the opening quote; acc is what was read
ScanString(s, i, acc) ==
    IF i > Len(s) THEN ParseError
    ELSE IF s[i] = DQ THEN Parsed(TRUE, JStr(acc), i + 1)
    ELSE IF s[i] = LF THEN ParseError
    ELSE IF s[i] = BS
      THEN IF i < Len(s) /\ s[i + 1] \in {DQ, BS, "n"}
             THEN ScanString(s, i + 2, Append(acc, Unescape(s[i + 1])))
             ELSE ParseError
    ELSE ScanString(s, i + 1, Append(acc, s[i]))

RECURSIVE ParseValue(_, _), ParseMembers(_, _, _)
\* JSON.parse of the value that starts at s[i]
ParseValue(s, i) ==
    IF i > Len(s) THEN ParseError
    ELSE IF s[i] = DQ THEN ScanString(s, i + 1, <<>>)
    ELSE IF s[i] = "{"
      THEN IF i < Len(s) /\ s[i + 1] = "}"
             THEN Parsed(TRUE, JObj(<<>>), i + 2)
             ELSE ParseMembers(s, i + 1, <<>>)
    ELSE ParseError
\* the members of an object, from the key that starts at s[i]
ParseMembers(s, i, acc) ==
    IF i > Len(s) \/ s[i] # DQ THEN ParseError
    ELSE LET k == ScanString(s, i + 1, <<>>) IN
         IF ~k.ok \/ k.next > Len(s) \/ s[k.next] # ":" THEN ParseError
         ELSE LET v == ParseValue(s, k.next + 1)
                  all == Append(acc, Member(k.v.s, v.v)) IN
              IF ~v.ok \/ v.next > Len(s) THEN ParseError
              ELSE IF s[v.next] = "}" THEN Parsed(TRUE, JObj(all), v.next + 1)
              ELSE IF s[v.next] = "," THEN ParseMembers(s, v.next + 1, all)
              ELSE ParseError

\* JSON.parse(text); JNone when it throws
JSONparse(text) ==
    LET r == ParseValue(text, 1) IN
    IF r.ok /\ r.next = Len(text) + 1 THEN r.v ELSE JNone

\* ------------------------------------------------------------ SSE frames
\* the texts of the keys and of the fixed values, as characters
KeyJsonrpc == <<"j", "s", "o", "n", "r", "p", "c">>
KeyMethod == <<"m", "e", "t", "h", "o", "d">>
KeyParams == <<"p", "a", "r", "a", "m", "s">>
KeyType == <<"t", "y", "p", "e">>
KeyId == <<"i", "d">>
KeyConversationId ==
    <<"c", "o", "n", "v", "e", "r", "s", "a", "t", "i", "o", "n", "I", "d">>
KeyContent == <<"c", "o", "n", "t", "e", "n", "t">>
KeyRole == <<"r", "o", "l", "e">>
KeyError == <<"e", "r", "r", "o", "r">>
KeyText == <<"t", "e", "x", "t">>
TextVersion == <<"2", ".", "0">>
TextChat == <<"c", "h", "a", "t">>
TextAssistant == <<"a", "s", "s", "i", "s", "t", "a", "n", "t">>
TextStart == <<"s", "t", "a", "r", "t">>
TextEnd == <<"e", "n", "d">>
TextDone == <<"d", "o", "n", "e">>
TextRunFailed == <<"R", "u", "n", " ", "f", "a", "i", "l", "e", "d">>

TypeText(type) ==
    CASE type = "start" -> TextStart
      [] type = "content" -> KeyContent
      [] type = "end" -> TextEnd
      [] type = "error" -> KeyError

\* an sId of the upstream, a string
SidText(n) == <<<<"1", "2", "3", "4", "5", "6", "7", "8", "9">>[n]>>

\* the object literal handed to sendEvent for event ev; a member whose value
\* is undefined is left out by JSON.stringify
EventData(ev) ==
    LET id == IF ev.id = NoSid THEN <<>>
              ELSE <<Member(KeyId, JStr(SidText(ev.id)))>>
        cid == IF ev.conversationId = NoSid THEN <<>>
               ELSE <<Member(KeyConversationId,
                             JStr(SidText(ev.conversationId)))>>
        payload ==
            IF ev.type = "content"
              THEN <<Member(KeyContent, JStr(ev.content)),
                     Member(KeyRole, JStr(TextAssistant))>>
            ELSE IF ev.type = "error"
              THEN <<Member(KeyError, JStr(ev.error))>>
            ELSE <<>>
    IN JObj(<<Member(KeyJsonrpc, JStr(TextVersion)),
              Member(KeyMethod, JStr(TextChat)),
              Member(KeyParams,
                     JObj(<<Member(KeyType, JStr(TypeText(ev.type)))>>
                          \o id \o payload \o cid))>>)

DataPrefix == <<"d", "a", "t", "a", ":", " ">>

\* `data: ${JSON.stringify(data)}\n\n`
Frame(data) == DataPrefix \o Stringify(data) \o <<LF, LF>>

\* ------------------------------------------------------------ client-test.js
\* positions of buf at which the separator \n\n starts
Blanks(buf) == {i \in 1..(Len(buf) - 1) : buf[i] = LF /\ buf[i + 1] = LF}

RECURSIVE Split(_)
\* buffer.split('\n\n')
Split(buf) ==
    IF Blanks(buf) = {} THEN <<buf>>
    ELSE LET i == CHOOSE j \in Blanks(buf) : \A k \in Blanks(buf) : j <= k
         IN <<SubSeq(buf, 1, i - 1)>> \o Split(SubSeq(buf, i + 2, Len(buf)))

\* line.startsWith('data: ')
StartsWithData(line) ==
    Len(line) >= Len(DataPrefix) /\ SubSeq(line, 1, Len(DataPrefix)) = DataPrefix

\* obj.key in JavaScript; JNone for undefined
Field(obj, key) ==
    IF obj.t = "obj" /\ \E i \in DOMAIN obj.f : obj.f[i].k = key
      THEN obj.f[CHOOSE i \in DOMAIN obj.f :
                    /\ obj.f[i].k = key
                    /\ \A j \in DOMAIN obj.f : obj.f[j].k = key => j <= i].v
      ELSE JNone

\* the body of the try for one parsed event
OnEvent(cl, data) ==
    LET params == Field(data, KeyParams)
        type == Field(params, KeyType)
        seenIt == [cl EXCEPT !.received = Append(@, data)]
    IN IF type = JStr(KeyText)
         THEN [seenIt EXCEPT !.fullResponse = @ \o Field(params, KeyText).s]
       ELSE IF type = JStr(TextDone)
         THEN [seenIt EXCEPT !.completed = TRUE]
       ELSE IF type = JStr(KeyError)
         THEN [seenIt EXCEPT !.failed = TRUE]
       ELSE seenIt

\* the body of for (const line of lines)
OnLine(cl, line) ==
    IF ~StartsWithData(line) THEN cl
    ELSE LET data == JSONparse(SubSeq(line, Len(DataPrefix) + 1, Len(line)))
         IN IF data = JNone THEN cl ELSE OnEvent(cl, data)

RECURSIVE OnLines(_, _)
OnLines(cl, lines) ==
    IF lines = <<>> THEN cl ELSE OnLines(OnLine(cl, Head(lines)), Tail(lines))

\* res.on('data', chunk => ...)
OnData(cl, chunk) ==
    LET lines == Split(cl.buffer \o chunk)
    IN OnLines([cl EXCEPT !.buffer = lines[Len(lines)]],
               SubSeq(lines, 1, Len(lines) - 1))

\* --------------------------------------------- a finished stream and its client
\* the requests whose streams are followed to the client: a run that
\* completed with an assistant message of any text, or without one, a run
\* that failed, and a conversation that could not be created
Outcomes ==
    {[kind |-> "content", text |-> t] : t \in Texts}
    \cup {[kind |-> k, text |-> <<>>] : k \in {"empty", "failed", "refused"}}

StreamOf(o) ==
    IF o.kind = "refused" THEN <<ErrorEvent(NoSid, NoSid, TextRunFailed)>>
    ELSE <<StartEvent(2, 1)>>
         \o (IF o.kind = "content" THEN <<ContentEvent(2, 1, o.text)>>
             ELSE <<>>)
         \o (IF o.kind = "failed" THEN <<ErrorEvent(2, 1, TextRunFailed)>>
             ELSE <<EndEvent(2, 1)>>)

\* connection 1 has finished a chat request with outcome o; none of its
\* frames has left the server yet
Finished(o) ==
    LET ran == o.kind # "refused"
        polled == IF ran THEN 1 ELSE 0
        fetchedIt == o.kind \in {"content", "empty"}
        list == IF o.kind = "content"
                  THEN <<[role |-> "assistant", content |-> o.text]>>
                  ELSE <<>>
        st == IF ~ran THEN None
              ELSE IF o.kind = "failed" THEN "failed" ELSE "completed"
    IN
    /\ accepting = {}
    /\ pc = [c \in Conns |-> IF c = 1 THEN "done" ELSE "idle"]
    /\ req = [c \in Conns |-> IF c = 1
               THEN [method |-> "chat",
                     params |-> [kind |-> "array", items |-> <<UserHi>>]]
               ELSE NoRequest]
    /\ response = [c \in Conns |-> NoResponse]
    /\ events = [c \in Conns |-> IF c = 1 THEN StreamOf(o) ELSE <<>>]
    /\ closed = [c \in Conns |-> c = 1]
    /\ conversationId = [c \in Conns |-> IF c = 1 /\ ran THEN 1 ELSE NoSid]
    /\ runId = [c \in Conns |-> IF c = 1 /\ ran THEN 2 ELSE NoSid]
    /\ idx = [c \in Conns |-> IF c = 1 /\ ran THEN 1 ELSE 0]
    /\ retries = [c \in Conns |-> IF c = 1 THEN polled ELSE 0]
    /\ contentSent = [c \in Conns |-> c = 1 /\ o.kind = "content"]
    /\ status = [c \in Conns |-> IF c = 1 THEN st ELSE None]
    /\ seen = [c \in Conns |-> IF c = 1 /\ ran THEN {st} ELSE {}]
    /\ log = [c \in Conns |-> IF c # 1 THEN <<>>
               ELSE IF ~ran
                 THEN <<Call("conversation", NullMsg), Ret("conversation", FALSE)>>
               ELSE <<Call("conversation", NullMsg), Ret("conversation", TRUE),
                      Call("message", UserHi), Ret("message", TRUE),
                      Call("run", NullMsg), Ret("run", TRUE)>>]
    /\ polls = [c \in Conns |-> IF c = 1 THEN polled ELSE 0]
    /\ fetches = [c \in Conns |-> IF c = 1 /\ fetchedIt THEN 1 ELSE 0]
    /\ fetched = [c \in Conns |-> IF c = 1 /\ fetchedIt
                   THEN [kind |-> "array", items |-> list] ELSE NoFetch]
    /\ nextSid = IF ran THEN 3 ELSE 1
    /\ target = [c \in Conns |-> IF c = 1 /\ ran THEN {<<1, 2>>} ELSE {}]
    /\ answered = [c \in Conns |-> IF c = 1 THEN polled ELSE 0]
    /\ scheduled = [c \in Conns |-> IF c = 1 THEN polled ELSE 0]

InitClient == (\E o \in Outcomes : Finished(o)) /\ InitExt

\* res.write of the frame of the next event reaches the socket
WriteFrame(c) ==
    /\ written[c] < Len(events[c])
    /\ wire' = [wire EXCEPT ![c] = @ \o Frame(EventData(events[c][written[c] + 1]))]
    /\ written' = [written EXCEPT ![c] = @ + 1]
    /\ UNCHANGED <<accepting, pc, req, response, events, closed,
                   conversationId, runId, idx, retries, contentSent, status,
                   seen, log, polls, fetches, fetched, nextSid, clientGone,
                   rpcLog, client, target, answered,
                   scheduled>>

\* the sizes of the chunk the socket may hand over next
ChunkSizes(c) == {n \in 1..MaxChunk : n <= Len(wire[c])} \cup {Len(wire[c])}

\* the socket hands the first n pending characters to the 'data' listener,
\* unless the client has called req.destroy()
Deliver(c, n) ==
    /\ wire[c] # <<>>
    /\ ~client[c].completed /\ ~client[c].failed
    /\ client' = [client EXCEPT ![c] = OnData(@, SubSeq(wire[c], 1, n))]
    /\ wire' = [wire EXCEPT ![c] = SubSeq(@, n + 1, Len(@))]
    /\ UNCHANGED <<accepting, pc, req, response, events, closed,
                   conversationId, runId, idx, retries, contentSent, status,
                   seen, log, polls, fetches, fetched, nextSid, clientGone,
                   rpcLog, written, target, answered,
                   scheduled>>

NextClient == \E c \in Conns :
    \/ WriteFrame(c)
    \/ \E n \in ChunkSizes(c) : Deliver(c, n)

SpecClient == InitClient /\ [][NextClient]_vars

\* ------------------------------------------------------ the client goes away
\* variant: a close listener clears the timer and ends the response
DisconnectCancels(c) ==
    /\ runId[c] # NoSid
    /\ ~closed[c] /\ ~clientGone[c]
    /\ clientGone' = [clientGone EXCEPT ![c] = TRUE]
    /\ closed' = [closed EXCEPT ![c] = TRUE]
    /\ pc' = [pc EXCEPT ![c] = IF @ = "timer" THEN "done" ELSE @]
    /\ UNCHANGED <<accepting, req, response, events, conversationId, runId,
                   idx, retries, contentSent, status, seen, log, polls,
                   fetches, fetched, nextSid, rpcLog, wire, written, client,
                   target, answered,
                   scheduled>>

\* the client drops the connection after 'start' and before res.end(); the
\* handler registers no listener on req or res, so nothing else changes
Disconnect(c) ==
    /\ runId[c] # NoSid
    /\ ~closed[c] /\ ~clientGone[c]
    /\ clientGone' = [clientGone EXCEPT ![c] = TRUE]
    /\ UNCHANGED <<accepting, pc, req, response, events, closed,
                   conversationId, runId, idx, retries, contentSent, status,
                   seen, log, polls, fetches, fetched, nextSid, rpcLog, wire,
                   written, client, target, answered,
                   scheduled>>

NextDisconnect == \E c \in Conns :
    \/ Receive(c)
    \/ ConversationReturn(c)
    \/ PostReturn(c)
    \/ RunReturn(c)
    \/ checkRun(c)
    \/ PollReturn(c)
    \/ FetchReturn(c)
    \/ Disconnect(c)

SpecDisconnect == Init /\ [][NextDisconnect]_vars

\* ------------------------------------------------- two requests in flight
\* both connections carry the chat request of the scenario
ConcRequests ==
    {[method |-> "chat", params |-> [kind |-> "array", items |-> <<UserHi>>]]}

\* pending and in_progress take the same branch; one of them stands for both
ConcStatuses == {"pending", "completed", "failed", NetErr}

ConcBodies ==
    {[kind |-> "array", items |-> <<UserHi, AsstHello>>],
     [kind |-> "array", items |-> <<UserHi>>]}

InitConc ==
    /\ accepting = Conns
    /\ pc = [c \in Conns |-> "idle"]
    /\ req = [c \in Conns |-> NoRequest]
    /\ response = [c \in Conns |-> NoResponse]
    /\ events = [c \in Conns |-> <<>>]
    /\ closed = [c \in Conns |-> FALSE]
    /\ conversationId = [c \in Conns |-> NoSid]
    /\ runId = [c \in Conns |-> NoSid]
    /\ idx = [c \in Conns |-> 0]
    /\ retries = [c \in Conns |-> 0]
    /\ contentSent = [c \in Conns |-> FALSE]
    /\ status = [c \in Conns |-> None]
    /\ seen = [c \in Conns |-> {}]
    /\ log = [c \in Conns |-> <<>>]
    /\ polls = [c \in Conns |-> 0]
    /\ fetches = [c \in Conns |-> 0]
    /\ fetched = [c \in Conns |-> NoFetch]
    /\ nextSid = 1
    /\ target = [c \in Conns |-> {}]
    /\ answered = [c \in Conns |-> 0]
    /\ scheduled = [c \in Conns |-> 0]
    /\ InitExt

ReceiveConc(c) == \E r \in ConcRequests : Handle(c, r)
PollConc(c) == \E out \in ConcStatuses : PollAnswer(c, out)
FetchConc(c) == \E body \in ConcBodies : FetchAnswer(c, body)

\* the event loop runs one continuation at a time, of either request
NextConc == \E c \in Conns :
    \/ ReceiveConc(c)
    \/ ConversationReturn(c)
    \/ PostReturn(c)
    \/ RunReturn(c)
    \/ checkRun(c)
    \/ PollConc(c)
    \/ FetchConc(c)

SpecConc == InitConc /\ [][NextConc]_vars

\* ---------------------------------------------------- vocabulary of the claims
Types(c) == [i \in 1..Len(events[c]) |-> events[c][i].type]
CountType(c, t) == Cardinality({i \in DOMAIN events[c] : events[c][i].type = t})
Terminals(c) == {i \in DOMAIN events[c] : events[c][i].type \in {"end", "error"}}

\* a request that passed the validation of the streaming endpoint
ChatRequest(c) ==
    pc[c] # "idle" /\ req[c].method = "chat" /\ req[c].params.kind = "array"
NonEmptyChat(c) == ChatRequest(c) /\ Len(req[c].params.items) > 0

Calls(c, op) ==
    {i \in DOMAIN log[c] : log[c][i].ev = "call" /\ log[c][i].op = op}
Failures(c) == {i \in DOMAIN log[c] : log[c][i].ev = "ret" /\ ~log[c][i].ok}
HasAssistant(list) == \E i \in DOMAIN list : list[i].role = "assistant"
ListOf(body) == IF body.kind = "array" THEN body.items ELSE <<>>

\* every poll answered so far kept to the upstream contract: one of the four
\* documented statuses, or a transport failure
InContract(c) == seen[c] \subseteq ContractStatuses \cup {NetErr}

\* the handler of the connection has nothing left to run: no call is awaited
\* and no timer is scheduled
Quiet(c) == pc[c] \in {"done", "stalled"}

\* ------------------------------------------------------------------------ C1
\* C1 as stated: every finished chat request with a non-empty messages array
\* has exactly one 'start' event on its stream, and it is the first event,
\* whatever the upstream calls answered.
C1_StartAlways ==
    \A c \in Conns : (NonEmptyChat(c) /\ pc[c] = "done") =>
        /\ CountType(c, "start") = 1
        /\ events[c][1].type = "start"

\* C1 amended: a chat request with a non-empty messages array emits at most
\* one 'start', before any other event; it emits it exactly when conversation
\* creation, every message post and run creation have succeeded, and when one
\* of them fails the stream carries the error event only, without 'start'.
C1_StartFirstOnceRunCreated ==
    \A c \in Conns : NonEmptyChat(c) =>
        /\ CountType(c, "start") <= 1
        /\ CountType(c, "start") = 1 => events[c][1].type = "start"
        /\ CountType(c, "start") = 1 <=> runId[c] # NoSid
        /\ runId[c] # NoSid => Failures(c) = {} /\ Calls(c, "run") # {}
        /\ (pc[c] = "done" /\ runId[c] = NoSid) => Types(c) = <<"error">>

C1_Witness ==
    \E c \in Conns :
        /\ NonEmptyChat(c) /\ closed[c] /\ retries[c] > 1
        /\ Types(c) = <<"start", "content", "end">>

C4_Inv ==
    \A c \in Conns :
        (runId[c] # NoSid /\ seen[c] \subseteq {"pending", "in_progress"}) =>
        /\ polls[c] <= maxRetries
        /\ pc[c] \in {"timer", "awaitPoll", "done"}
        /\ pc[c] # "done" => Types(c) = <<"start">> /\ ~closed[c]
        /\ pc[c] = "done" =>
            /\ polls[c] = maxRetries
            /\ closed[c]
            /\ Types(c) = <<"start", "error">>
            /\ events[c][2].error = "Request timed out"

C4_NoPollAfterClose ==
    [][\A c \in Conns : closed[c] => polls'[c] = polls[c]]_vars

C6_EmptyRejected ==
    \A c \in Conns :
        (ChatRequest(c) /\ Len(req[c].params.items) = 0) =>
        /\ response[c] = [status |-> 400, code |-> -32602]
        /\ log[c] = <<>>

PostedArgs(c) ==
    LET posts == SelectSeq(log[c],
                     LAMBDA e : e.ev = "call" /\ e.op = "message")
    IN [i \in 1..Len(posts) |-> posts[i].arg]

\* C8: for a messages array of length > 1 the messages posted so far are a
\* prefix of the array, in the input order; every upstream call but the first
\* starts right after the successful return of the call before it; and the
\* run creation call starts only after all messages were posted and the post
\* of the last one has returned.
C8_PostedInOrder ==
    \A c \in Conns : (ChatRequest(c) /\ Len(req[c].params.items) > 1) =>
        LET items == req[c].params.items
            n == Len(PostedArgs(c))
        IN /\ n <= Len(items)
           /\ PostedArgs(c) = SubSeq(items, 1, n)
           /\ \A i \in 2..Len(log[c]) :
                log[c][i].ev = "call" =>
                    log[c][i - 1].ev = "ret" /\ log[c][i - 1].ok
           /\ \A i \in Calls(c, "run") :
                /\ n = Len(items)
                /\ log[c][i - 1].op = "message"

C8_Witness ==
    \E c \in Conns :
        /\ req[c].params.items = <<AsstHello, UserHi, AsstHello>>
        /\ Calls(c, "run") # {}
        /\ Len(PostedArgs(c)) = 3

\* ------------------------------------------------------------------------ C9
\* C9: a poll answering 'failed', on the first or any later attempt, ends the
\* stream as start, error with error text 'Run failed' carrying the ids of
\* the request, closes the connection and fetches no message list.
C9_RunFailed ==
    \A c \in Conns : (status[c] = "failed" /\ polls[c] >= 1) =>
        /\ events[c] = <<Ev("start", runId[c], conversationId[c], None, None),
                         Ev("error", runId[c], conversationId[c], None,
                            "Run failed")>>
        /\ closed[c] /\ pc[c] = "done"
        /\ fetches[c] = 0

C9_Witness ==
    \E c \in Conns :
        /\ status[c] = "failed" /\ polls[c] = 1 /\ closed[c]
        /\ events[c][2].error = "Run failed"

\* ----------------------------------------------------------------------- C10
\* C10: a request makes at most one conversation creation call and one run
\* creation call and posts each message at most once; when one of these calls
\* fails, it is the last upstream call of the request, the stream carries
\* the error event only, and the connection is closed.
C10_SingleAttempt ==
    \A c \in Conns :
        /\ Cardinality(Calls(c, "conversation")) <= 1
        /\ Cardinality(Calls(c, "run")) <= 1
        /\ Cardinality(Calls(c, "message")) <= Len(req[c].params.items)
        /\ PostedArgs(c) = SubSeq(req[c].params.items, 1, Len(PostedArgs(c)))
        /\ Failures(c) # {} =>
            /\ Failures(c) = {Len(log[c])}
            /\ Types(c) = <<"error">>
            /\ closed[c] /\ pc[c] = "done"
            /\ polls[c] = 0 /\ fetches[c] = 0

C10_Witness ==
    \E c \in Conns :
        /\ Failures(c) # {}
        /\ log[c][Len(log[c])].op = "run"
        /\ Cardinality(Calls(c, "message")) = 2
        /\ Types(c) = <<"error">>

\* ----------------------------------------------------------------------- C11
\* a transport error has answered the status GET or the message-list GET
TransportFailed(c) == NetErr \in seen[c] \/ fetched[c].kind = NetErr

\* C11: once a poll call, or the message-list fetch of a poll tick, has
\* failed with a transport error, the stream is start, error with the ids of
\* the request, the connection is closed and nothing is scheduled, on
\* whichever attempt it happened.
C11_Inv ==
    \A c \in Conns : TransportFailed(c) =>
        /\ Types(c) = <<"start", "error">>
        /\ events[c][2].id = runId[c]
        /\ events[c][2].conversationId = conversationId[c]
        /\ closed[c] /\ pc[c] = "done"
        /\ polls[c] = retries[c] /\ polls[c] \in 1..maxRetries
        /\ Cardinality(seen[c] \cap {NetErr}) + fetches[c] = 1

\* and no poll or fetch is issued after the failure
C11_NoPollAfterFailure ==
    [][\A c \in Conns : TransportFailed(c) =>
          polls'[c] = polls[c] /\ fetches'[c] = fetches[c]]_vars

C11_TransportErrorEnds == []C11_Inv /\ C11_NoPollAfterFailure

C11_Witness ==
    \E c \in Conns :
        /\ NetErr \in seen[c] /\ polls[c] = 3 /\ closed[c]
        /\ Types(c) = <<"start", "error">>

\* ----------------------------------------------------------------------- C12
\* the content of the last message of the list whose role is assistant
LastAssistantContent(list) ==
    LET last == CHOOSE i \in DOMAIN list :
                    /\ list[i].role = "assistant"
                    /\ \A j \in DOMAIN list :
                          list[j].role = "assistant" => j <= i
    IN list[last].content

\* C12: a 'content' event carries the content of the last message with role
\* assistant of the fetched list; and for messages [{user, Hi}], a first poll
\* answering completed and a list whose last assistant message is 'Hello!',
\* the stream is start, content 'Hello!', end.
C12_ContentIsLastAssistant ==
    \A c \in Conns :
        /\ \A i \in DOMAIN events[c] : events[c][i].type = "content" =>
              /\ HasAssistant(ListOf(fetched[c]))
              /\ events[c][i].content = LastAssistantContent(ListOf(fetched[c]))
        /\ (/\ req[c].params.items = <<UserHi>>
            /\ polls[c] = 1 /\ status[c] = "completed"
            /\ fetched[c] = [kind |-> "array", items |-> <<UserHi, AsstHello>>])
           => events[c] =
                <<Ev("start", runId[c], conversationId[c], None, None),
                  Ev("content", runId[c], conversationId[c], "Hello!", None),
                  Ev("end", runId[c], conversationId[c], None, None)>>

C12_Witness ==
    \E c \in Conns :
        /\ req[c].params.items = <<UserHi>>
        /\ polls[c] = 1 /\ status[c] = "completed"
        /\ fetched[c] = [kind |-> "array", items |-> <<UserHi, AsstHello>>]
        /\ events[c][2].content = "Hello!"

\* ----------------------------------------------------------------------- C13
\* C13 as stated: every event written on a chat stream carries the run id
\* and the conversation id of the request.
C13_AllEventsCarryIds ==
    \A c \in Conns : \A i \in DOMAIN events[c] :
        /\ events[c][i].id # NoSid
        /\ events[c][i].conversationId # NoSid

\* C13 amended: every event written once the run has been created (start,
\* content, end and the error events of the poll loop) carries the run id and
\* the conversation id of its request; the error event written when
\* conversation, message or run creation fails carries neither.
C13_IdsOnceRunCreated ==
    \A c \in Conns : \A i \in DOMAIN events[c] :
        IF runId[c] # NoSid
          THEN /\ events[c][i].id = runId[c]
               /\ events[c][i].conversationId = conversationId[c]
               /\ conversationId[c] # NoSid
          ELSE /\ events[c][i].type = "error"
               /\ events[c][i].id = NoSid
               /\ events[c][i].conversationId = NoSid

C13_Witness ==
    \E c \in Conns :
        /\ runId[c] = NoSid /\ conversationId[c] # NoSid
        /\ Types(c) = <<"error">>
        /\ events[c][1].conversationId = NoSid

\* ----------------------------------------------------------------------- C18
\* a request whose method parameter is not 'chat' has been handled
OtherMethod(c) == pc[c] # "idle" /\ req[c].method # "chat"

\* nothing but the JSON response: no SSE event, no upstream call, no polling
NothingStarted(c) ==
    /\ events[c] = <<>> /\ log[c] = <<>>
    /\ polls[c] = 0 /\ fetches[c] = 0 /\ retries[c] = 0
    /\ conversationId[c] = NoSid /\ runId[c] = NoSid
    /\ pc[c] = "done"

\* C18 as stated: a request to the SSE endpoint whose method is not 'chat' is
\* answered with the JSON-RPC error -32601 and starts nothing.
C18_MethodNotFound ==
    \A c \in Conns : OtherMethod(c) =>
        response[c].code = -32601 /\ NothingStarted(c)

\* C18 amended: a request whose method is not 'chat' is answered with the
\* JSON-RPC error -32601 (HTTP 400) when its params are absent or parse as
\* JSON, and with -32000 (HTTP 500) when they do not parse; either way it
\* writes no SSE event, makes no upstream call and starts no polling.
C18_MethodRejected ==
    \A c \in Conns : OtherMethod(c) =>
        /\ response[c] = IF req[c].params.kind = "badJson"
                           THEN [status |-> 500, code |-> -32000]
                           ELSE [status |-> 400, code |-> -32601]
        /\ NothingStarted(c)

C18_Witness ==
    \E c \in Conns :
        /\ OtherMethod(c) /\ req[c].params.kind = "array"
        /\ Len(req[c].params.items) > 0
        /\ response[c].code = -32601

\* ----------------------------------------------------------------------- C15
\* the connection carries a terminal event and res.end() has been called
Terminated(c) == closed[c] /\ Terminals(c) # {}

\* C15: when every upstream call returns or fails and every timer fires, and
\* the run status is always one of pending, in_progress, completed, failed, a
\* chat request that passed validation eventually has a terminal event on its
\* stream and its connection closed.
C15_EventuallyTerminal ==
    \A c \in Conns : (pc[c] = "awaitConversation") ~> Terminated(c)

C15_Witness ==
    \E c \in Conns :
        /\ Terminated(c) /\ polls[c] = maxRetries
        /\ seen[c] = {"pending", "in_progress"}
        /\ events[c][Len(events[c])].error = "Request timed out"

\* ----------------------------------------------------------------------- C14
\* everything the handler of connection c holds or has written
Local(c) ==
    <<pc[c], req[c], response[c], events[c], closed[c], conversationId[c],
      runId[c], idx[c], retries[c], contentSent[c], status[c], seen[c],
      log[c], polls[c], fetches[c], fetched[c]>>

\* the event types a request running alone shows for the answers it received:
\* whether its run was created, its last status, its fetched list
AloneTypes(c) ==
    LET list == ListOf(fetched[c]) IN
    IF ~ChatRequest(c) THEN <<>>
    ELSE IF runId[c] = NoSid
      THEN IF Quiet(c) THEN <<"error">> ELSE <<>>
    ELSE IF ~Quiet(c) THEN <<"start">>
    ELSE IF status[c] = "completed" /\ fetched[c].kind # NetErr
      THEN IF ~HasAssistant(list) THEN <<"start", "end">>
           ELSE IF LastAssistantContent(list) # None
             THEN <<"start", "content", "end">>
           ELSE <<"start", "error">>
    ELSE <<"start", "error">>

C14_Inv ==
    \A c \in Conns :
        /\ polls[c] = retries[c]
        /\ Types(c) = AloneTypes(c)
        /\ contentSent[c] = (CountType(c, "content") = 1)
        /\ (Quiet(c) /\ status[c] = "pending") => polls[c] = maxRetries
        /\ pc[c] = "timer" => polls[c] < maxRetries
        /\ \A i \in DOMAIN events[c] :
              /\ events[c][i].id \in {NoSid, runId[c]}
              /\ events[c][i].conversationId \in {NoSid, conversationId[c]}
        /\ \A d \in Conns \ {c} :
              /\ runId[c] # NoSid => runId[c] # runId[d]
              /\ conversationId[c] # NoSid =>
                    conversationId[c] # conversationId[d]

\* a continuation of one request changes nothing of the other
C14_StepsAreLocal ==
    [][\A c \in Conns : Local(c)' # Local(c) =>
          \A d \in Conns \ {c} : Local(d)' = Local(d)]_vars

\* C14: with two chat requests in flight and their continuations interleaved
\* in any order, each request counts its own polls, keeps its own
\* content-sent flag and timer, shows the events it would show alone for the
\* answers it received, and gets only events with its own run id and
\* conversation id.
C14_Independent == []C14_Inv /\ C14_StepsAreLocal

C14_Witness ==
    /\ polls[1] = maxRetries /\ Types(1) = <<"start", "error">>
    /\ status[1] = "pending"
    /\ polls[2] = 2 /\ Types(2) = <<"start", "content", "end">>
    /\ runId[2] < runId[1]

\* ----------------------------------------------------------------------- C16
\* what stops the poll loop: a terminal status, a failed call, or the cap
LoopEnded(c) ==
    \/ status[c] \in {"completed", "failed", NetErr}
    \/ fetched[c].kind = NetErr
    \/ polls[c] = maxRetries

C16_Inv ==
    \A c \in Conns : clientGone[c] =>
        /\ pc[c] = "timer" => ENABLED checkRun(c)
        /\ pc[c] = "timer" => polls[c] < maxRetries
        /\ polls[c] = retries[c]
        /\ InContract(c) =>
              /\ Types(c) = AloneTypes(c)
              /\ Quiet(c) => LoopEnded(c)
              /\ ~LoopEnded(c) => pc[c] \in {"timer", "awaitPoll"}

\* the disconnect itself cancels nothing, and every timer that fires after it
\* issues the next poll
C16_NothingCancelled ==
    [][\A c \in Conns :
          /\ clientGone'[c] # clientGone[c] => Local(c)' = Local(c)
          /\ (clientGone[c] /\ pc[c] = "timer" /\ pc'[c] # "timer") =>
                polls'[c] = polls[c] + 1 /\ pc'[c] = "awaitPoll"]_vars

\* C16: a client that disconnects after 'start' changes nothing in the
\* handler: the timer stays scheduled and the relay goes on polling until a
\* terminal status, a failed poll or fetch, or the 60th attempt.
C16_KeepsPolling == []C16_Inv /\ C16_NothingCancelled

C16_Witness ==
    \E c \in Conns :
        /\ clientGone[c] /\ pc[c] = "awaitPoll" /\ polls[c] = maxRetries
        /\ closed[c] = FALSE

\* ----------------------------------------------------------------------- C17
C17_Inv ==
    \A i \in DOMAIN rpcLog :
        LET q == rpcLog[i]
            a == q.response IN
        /\ a.id = q.id
        /\ q.method = "getModels" =>
              a.kind = "result" /\ a.status = 200 /\ a.body = "agents"
        /\ q.method = "chat" =>
              /\ a.kind = "result" /\ a.status = 200
              /\ a.body =
                   "Chat requests should use the streaming endpoint /mcp/stream"
        /\ q.method \notin {"getModels", "chat"} =>
              a.kind = "error" /\ a.code = -32601

\* no upstream call is made and no conversation or run is created
C17_NoUpstream ==
    [][rpcLog' # rpcLog =>
          UNCHANGED <<log, nextSid, conversationId, runId, polls, fetches,
                      events, pc>>]_vars

\* C17: POST /mcp answers 'getModels' and 'chat' with a result echoing the
\* request id, 'chat' with nothing but the message pointing to /mcp/stream,
\* and any other method with the error -32601; no call goes upstream.
C17_RpcAnswers == []C17_Inv /\ C17_NoUpstream

C17_Witness ==
    /\ Len(rpcLog) = 2
    /\ rpcLog[1].method = "chat" /\ rpcLog[1].id = 2
    /\ rpcLog[1].response.kind = "result"
    /\ rpcLog[2].method = "runAgent" /\ rpcLog[2].response.code = -32601

\* ----------------------------------------------------------------------- C19
\* all frames of the connection were written and handed to the client
AllDelivered(c) == written[c] = Len(events[c]) /\ wire[c] = <<>>

\* the characters the client has been handed so far are those of the frames
\* written, one whole frame after the other, minus what is still pending
WholeFramesInOrder(c) ==
    LET sent == Flat([i \in 1..written[c] |-> Frame(EventData(events[c][i]))])
        got == Len(sent) - Len(wire[c])
    IN /\ got >= 0
       /\ SubSeq(sent, got + 1, Len(sent)) = wire[c]
       /\ Len(client[c].received) <= written[c]
       /\ got = Len(Flat([i \in 1..Len(client[c].received) |->
                            Frame(EventData(events[c][i]))]))
                + Len(client[c].buffer)

\* C19: what the client parses out of the stream is, event by event, the
\* object that was handed to sendEvent, for texts with quotes, backslashes
\* and line feeds and for every way the stream is cut into chunks; frames
\* reach the socket whole and in the order of the sends.
C19_RoundTrip ==
    \A c \in Conns :
        /\ \A t \in Texts : JSONparse(Stringify(JStr(t))) = JStr(t)
        /\ \A i \in DOMAIN client[c].received :
              i <= Len(events[c]) /\ client[c].received[i] = EventData(events[c][i])
        /\ WholeFramesInOrder(c)
        /\ AllDelivered(c) =>
              /\ Len(client[c].received) = Len(events[c])
              /\ client[c].buffer = <<>>

C19_Witness ==
    /\ AllDelivered(1) /\ Len(client[1].received) = 3
    /\ Field(Field(client[1].received[2], KeyParams), KeyContent)
         = JStr(<<LF, LF>>)

\* ----------------------------------------------------------------------- C20
\* C20 as stated: once the whole stream of a run that completed with an
\* assistant message has reached client-test.js, its fullResponse is the
\* content the relay sent and it has reported completion.
C20_ClientGetsResponse ==
    \A c \in Conns :
        (/\ AllDelivered(c)
         /\ Types(c) = <<"start", "content", "end">>)
        => /\ client[c].fullResponse = events[c][2].content
           /\ client[c].completed

\* ----------------------------------------------------------------------- C21
\* the methods the README lists as implemented
ReadmeMethods ==
    {"getAgentConfigurations", "createAgentConfiguration", "runAgent",
     "getRunById"}

\* C21 as stated: a JSON-RPC request naming getAgentConfigurations,
\* createAgentConfiguration, runAgent or getRunById is handled and is not
\* answered with the error 'method not supported'.
C21_ReadmeMethodsHandled ==
    \A i \in DOMAIN rpcLog :
        rpcLog[i].method \in ReadmeMethods =>
            /\ rpcLog[i].response.kind = "result"
            /\ rpcLog[i].response.code # -32601

\* ----------------------------------------------------------------------- C22
\* nothing of the request is pending: no awaited call, no scheduled timer
NothingPending(c) ==
    /\ pc[c] = "done"
    /\ ~ENABLED checkRun(c)
    /\ ~ENABLED PollReturn(c)
    /\ ~ENABLED FetchReturn(c)

C22_Inv ==
    \A c \in Conns : \A i \in Terminals(c) :
        /\ i = Len(events[c])
        /\ closed[c]
        /\ NothingPending(c)

\* after the terminal event nothing of the request changes any more
C22_NoStepAfterTerminal ==
    [][\A c \in Conns : Terminals(c) # {} => Local(c)' = Local(c)]_vars

\* C22: a request whose terminal event ('end' or 'error') has been written
\* is closed in the same step, has no timer scheduled and no call awaited,
\* and nothing is written, polled or fetched for it afterwards.
C22_TerminalAbsorbing == []C22_Inv /\ C22_NoStepAfterTerminal

C22_Witness ==
    \E c \in Conns :
        /\ Terminals(c) = {3} /\ events[c][3].type = "end"
        /\ polls[c] = 2 /\ fetches[c] = 1 /\ closed[c]

\* ----------------------------------------------------------------------- C23
\* the positions of the 'content' events on the stream
Contents(c) == {i \in DOMAIN events[c] : events[c][i].type = "content"}

\* C23: a stream carries at most one 'content' event, in every execution and
\* for every status the upstream answers; the one it carries comes after
\* 'start' and before the terminal event.
C23_AtMostOneContent ==
    \A c \in Conns :
        /\ Cardinality(Contents(c)) <= 1
        /\ \A i \in Contents(c) :
              /\ \E j \in 1..(i - 1) : events[c][j].type = "start"
              /\ \A j \in Terminals(c) : i < j
              /\ contentSent[c]
        /\ contentSent[c] => Contents(c) # {}

C23_Witness ==
    \E c \in Conns :
        /\ Contents(c) = {2} /\ events[c][2].content = "Older"
        /\ retries[c] = 3

\* ----------------------------------------------------------------------- C24
\* the step is a poll tick of the request: checkRun issues the status GET
Tick(c) == polls'[c] = polls[c] + 1

C24_Inv ==
    \A c \in Conns :
        /\ retries[c] \in 0..maxRetries
        /\ runId[c] = NoSid => retries[c] = 0
        /\ (pc[c] = "timer" /\ Len(events[c]) = 1 /\ seen[c] = {}) =>
              retries[c] = 0

C24_CountsTicks ==
    [][\A c \in Conns :
          /\ IF Tick(c) THEN retries'[c] = retries[c] + 1
                        ELSE retries'[c] = retries[c]
          /\ (/\ pc[c] = "awaitPoll" /\ retries[c] = maxRetries
              /\ pc'[c] # "awaitPoll"
              /\ status'[c] \in {"pending", "in_progress"})
             => /\ pc'[c] = "done" /\ closed'[c]
                /\ events'[c] = Append(events[c],
                       Ev("error", runId[c], conversationId[c], None,
                          "Request timed out"))
                /\ ~(ENABLED checkRun(c))']_vars

\* C24: the attempt counter of a request is 0 until its first poll tick,
\* goes up by exactly 1 on each tick and changes at no other step, stays
\* within 0..60, and the 60th tick answered pending or in_progress writes
\* the error event and schedules no tick.
C24_CounterBounded == []C24_Inv /\ C24_CountsTicks

C24_Witness ==
    \E c \in Conns :
        /\ retries[c] = maxRetries /\ pc[c] = "awaitPoll"
        /\ seen[c] = {"in_progress"}

\* ----------------------------------------------------------------------- C25
\* the run creation call of the request has returned a run
RunCreated(c) == \E i \in DOMAIN log[c] : log[c][i] = Ret("run", TRUE)

C25_Inv ==
    \A c \in Conns :
        /\ polls[c] = 0 => target[c] = {}
        /\ polls[c] > 0 =>
              /\ RunCreated(c) /\ runId[c] # NoSid /\ conversationId[c] # NoSid
              /\ events[c][1] = Ev("start", runId[c], conversationId[c], None, None)
              /\ target[c] = {<<conversationId[c], runId[c]>>}
        /\ \A d \in Conns \ {c} : \A t \in target[c] :
              t[1] # conversationId[d] /\ t[2] # runId[d]

\* 'start' is written in the step in which run creation returns, before any
\* poll; a tick finds the run created and 'start' written
C25_Order ==
    [][\A c \in Conns :
          /\ CountType(c, "start")' # CountType(c, "start") =>
                /\ log'[c][Len(log'[c])] = Ret("run", TRUE)
                /\ ~RunCreated(c) /\ polls[c] = 0 /\ polls'[c] = 0
                /\ events'[c] = <<Ev("start", runId'[c], conversationId[c],
                                     None, None)>>
          /\ Tick(c) => RunCreated(c) /\ CountType(c, "start") = 1]_vars

\* C25: no status GET is issued before the run creation call of the request
\* has returned; 'start' with the run id is written after run creation and
\* before the first poll; and every status GET names the conversation and
\* the run created by its own request, never those of another request.
C25_PollsOwnRun == []C25_Inv /\ C25_Order

C25_Witness ==
    /\ polls[1] = 2 /\ polls[2] = 3
    /\ conversationId[2] < conversationId[1] /\ runId[1] < runId[2]
    /\ target[1] = {<<conversationId[1], runId[1]>>}

\* ----------------------------------------------------------------------- C26
\* C26 as stated: a request whose run was created and whose handler has
\* nothing left to run has its connection closed, also when the send of the
\* terminal event has thrown.
C26_ClosedWhateverTheSend ==
    \A c \in Conns : (runId[c] # NoSid /\ Quiet(c)) => closed[c]

\* ----------------------------------------------------------------------- C27
\* the last status GET of the request was answered and its answer handled
TickHandled(c) ==
    /\ status[c] \notin {None, NetErr}
    /\ pc[c] \notin {"awaitPoll", "awaitFetch"}

\* C27 as stated: a poll tick that received a response has either written a
\* terminal event and closed the connection, or scheduled the next poll, and
\* not both, whatever the status value of the response.
C27_EndsOrReschedules ==
    \A c \in Conns : TickHandled(c) =>
        (closed[c] /\ Terminals(c) # {}) # (pc[c] = "timer")

\* ----------------------------------------------------------------------- C28
\* the positions of the timeout error on the stream
Timeouts(c) ==
    {i \in DOMAIN events[c] : events[c][i].error = "Request timed out"}

\* C28: a 60th poll that answers completed ends the stream with 'end'
\* (after the content event when the list has an assistant message with
\* text), one that answers failed ends it with 'Run failed'; 'Request timed
\* out' is written only when the 60th poll answers pending or in_progress.
C28_StatusBeforeCap ==
    \A c \in Conns :
        /\ (polls[c] = maxRetries /\ pc[c] = "done" /\ status[c] = "failed") =>
              /\ Types(c) = <<"start", "error">>
              /\ events[c][2].error = "Run failed"
        /\ (/\ polls[c] = maxRetries /\ pc[c] = "done"
            /\ status[c] = "completed" /\ fetched[c].kind # NetErr) =>
              LET list == ListOf(fetched[c]) IN
              IF ~HasAssistant(list) THEN Types(c) = <<"start", "end">>
              ELSE IF LastAssistantContent(list) # None
                THEN /\ Types(c) = <<"start", "content", "end">>
                     /\ events[c][2].content = LastAssistantContent(list)
              ELSE Timeouts(c) = {}
        /\ Timeouts(c) # {} =>
              /\ polls[c] = maxRetries
              /\ status[c] \in {"pending", "in_progress"}
              /\ Types(c) = <<"start", "error">>

C28_Witness ==
    \E c \in Conns :
        /\ polls[c] = maxRetries /\ status[c] = "failed"
        /\ seen[c] = {"pending", "failed"}
        /\ events[c][2].error = "Run failed" /\ closed[c]

\* ----------------------------------------------------------------------- C29
\* status GETs issued and not yet handled; timers set and not yet fired
Outstanding(c) == polls[c] - answered[c]
TimersSet(c) == scheduled[c] - polls[c]

C29_Inv ==
    \A c \in Conns :
        /\ Outstanding(c) \in {0, 1}
        /\ TimersSet(c) \in {0, 1}
        /\ Outstanding(c) + TimersSet(c) <= 1
        /\ Outstanding(c) = 1 <=> pc[c] = "awaitPoll"
        /\ TimersSet(c) = 1 <=> pc[c] = "timer"
        /\ Cardinality(Terminals(c)) <= 1

\* a timer is set only in the step that handles the answer of the previous
\* poll (or that sends 'start'), and a poll is issued only with none awaited
C29_OneAtATime ==
    [][\A c \in Conns :
          /\ scheduled'[c] # scheduled[c] =>
                /\ scheduled'[c] = scheduled[c] + 1
                /\ Outstanding(c)' = 0
                /\ \/ answered'[c] = answered[c] + 1
                   \/ polls[c] = 0 /\ CountType(c, "start")' = 1
          /\ Tick(c) => Outstanding(c) = 0 /\ TimersSet(c)' = 0]_vars

\* C29: a request has at most one status GET outstanding and at most one
\* timer set, never both; the next tick is scheduled only while the answer
\* of the previous one is handled; a stream gets at most one terminal event.
C29_NoOverlap == []C29_Inv /\ C29_OneAtATime

C29_Witness ==
    \E c \in Conns :
        /\ Outstanding(c) = 1 /\ polls[c] = 3 /\ scheduled[c] = 3
        /\ answered[c] = 2

\* ----------------------------------------------------------------------- C30
\* messages[i - 1] of the request, undefined beyond the array
ItemAt(c, i) ==
    IF i \in DOMAIN req[c].params.items THEN req[c].params.items[i]
    ELSE NullMsg

\* the positions (counted from 1) of the messages whose posting failed: the
\* POST returned an error, or addDustMessage threw before the POST
FailedPosts(c) ==
    {Cardinality({k \in 1..j : log[c][k].ev = "call" /\ log[c][k].op = "message"}) :
        j \in {j \in DOMAIN log[c] : log[c][j] = Ret("message", FALSE)}}
    \cup (IF ChatRequest(c) /\ idx[c] >= 1 /\ ItemAt(c, idx[c]) = NullMsg
            THEN {idx[c]} ELSE {})

\* C30: when posting the message at some position of the array has failed,
\* no later message is posted, no run is created, no 'start' is written and
\* no poll is issued or scheduled; the stream is the error event alone.
C30_StopsAtFailedPost ==
    \A c \in Conns : \A i \in FailedPosts(c) :
        /\ Len(PostedArgs(c)) <= i
        /\ PostedArgs(c) = SubSeq(req[c].params.items, 1, Len(PostedArgs(c)))
        /\ Calls(c, "run") = {} /\ runId[c] = NoSid
        /\ CountType(c, "start") = 0
        /\ polls[c] = 0 /\ scheduled[c] = 0 /\ target[c] = {}
        /\ Types(c) = <<"error">> /\ closed[c]

C30_Witness ==
    \E c \in Conns :
        /\ req[c].params.items = <<AsstHello, UserHi, UserHi>>
        /\ FailedPosts(c) = {2}
        /\ Len(PostedArgs(c)) = 2 /\ Types(c) = <<"error">>
====
